---- MODULE Spec2Model ----
(***************************************************************************)
(* A model of sqlint: the Node / SyntaxTree classes and the indent-driven  *)
(* tree builder (sqlint/syntax_tree.py), the checker driver                *)
(* (checker/tree.py), the Violation catalogue (checker/violation.py) and   *)
(* the Config accessors (sqlint/config/config_loader.py).                  *)
(*                                                                         *)
(* Strings are sequences of one-character strings, so that len() and       *)
(* "".join() are computed and not assumed.  A raised exception is a value  *)
(* [raised |-> <exception name>]; a constructed object carries             *)
(* raised |-> "None".                                                      *)
(***************************************************************************)
EXTENDS Integers, Sequences, FiniteSets, TLC

VARIABLES
    \* SyntaxTree.sqlptree / sqlftree
    token_list,      \* the tokenized lines consumed so far (parse_sql's result)
    is_abstract,     \* the is_abstract argument of sqlptree
    trees,           \* the SyntaxTree objects, by identity (1 is the guard root)
    parent_vertex,   \* sqlptree's cursor: an identity in trees
    tree_pc,         \* "loop" | "returned" | "printed"
    sql_out,         \* the value returned by sqlftree
    \* Node(...) / SyntaxTree(...) called directly, and the two setters
    made,            \* the objects constructed so far
    ctor_raised,     \* the exception of the last call, "None" if it returned
    \* the Violation classes
    viol_request,    \* the last constructor call: class and arguments
    violation,       \* what that call produced: a Violation or an exception
    message,         \* what get_message produced on it
    \* checker.tree.check
    check_pc,        \* "collect" | "print" | "done" | "raised"
    check_i,         \* how many entries of checker_list have been called
    returned,        \* what each checker's check() returned
    ran,             \* how many times each checker's check() was called
    violation_list,  \* check's local list
    stdout,          \* the lines printed
    \* Config
    values,          \* ConfigLoader.values
    accessed,        \* the last property read and what it returned
    \* Node.ltrip_kind / rtrip_kind / trip_kind
    nodes,           \* the Node objects, by identity
    trim_call        \* the last trim: operation, receiver, kinds, result

tree_vars == <<token_list, is_abstract, trees, parent_vertex, tree_pc, sql_out>>
ctor_vars == <<made, ctor_raised>>
viol_vars == <<viol_request, violation, message>>
check_vars == <<check_pc, check_i, returned, ran, violation_list, stdout>>
config_vars == <<values, accessed>>
node_vars == <<nodes, trim_call>>

vars == <<tree_vars, ctor_vars, viol_vars, check_vars, config_vars, node_vars>>

-----------------------------------------------------------------------------
\* Bounds of the model

MaxLines == 4       \* lines of an input
MaxIndent == 2      \* width of a leading WHITESPACE token
MaxObjects == 2     \* objects constructed directly
MaxArg == 2         \* |depth|, |line_num| passed to a constructor or setter
MaxOut == 2         \* violations returned by one checker
IntSpread == 2      \* distance of a loaded integer from its threshold
MaxTrimLen == 4     \* tokens of a trimmed Node
MaxNodes == 2       \* Node objects during trimming

-----------------------------------------------------------------------------
\* Exceptions

Raise(name) == [raised |-> name]

-----------------------------------------------------------------------------
\* Tokens (parser.Token: kind, word, len)

WHITESPACE == "WHITESPACE"
IDENTIFIER == "IDENTIFIER"
KEYWORD == "KEYWORD"
COMMA == "COMMA"
BRACKET_LEFT == "BRACKET_LEFT"
BRACKET_RIGHT == "BRACKET_RIGHT"
OPERATOR == "OPERATOR"

Token(kind, word) == [kind |-> kind, word |-> word]

\* len(token): the length of the token's exact source text
TokenLen(token) == Len(token.word)

Spaces(n) == [i \in 1..n |-> " "]

WsTok(n) == Token(WHITESPACE, Spaces(n))
IdTok == Token(IDENTIFIER, <<"t">>)
KwTok == Token(KEYWORD, <<"o", "n">>)

\* "".join(words)
RECURSIVE StrJoin(_, _)
StrJoin(sep, strs) ==
    IF Len(strs) = 0 THEN <<>>
    ELSE IF Len(strs) = 1 THEN strs[1]
    ELSE strs[1] \o sep \o StrJoin(sep, Tail(strs))

\* s[a:b] of Python, for 0 <= a and 0 <= b <= len(s)
Slice(s, a, b) == SubSeq(s, a + 1, b)

-----------------------------------------------------------------------------
\* class Node

Node_init(line_num, tokens) ==
    IF line_num < 0 THEN Raise("ValueError")
    ELSE [raised |-> "None", line_num |-> line_num, tokens |-> tokens]

Node_text(node) == StrJoin(<<>>, [i \in 1..Len(node.tokens) |-> node.tokens[i].word])

Node_indent(node) ==
    IF Len(node.tokens) = 0 THEN 0
    ELSE IF node.tokens[1].kind = WHITESPACE THEN TokenLen(node.tokens[1])
    ELSE 0

-----------------------------------------------------------------------------
\* class SyntaxTree.  parent is an identity in trees, 0 for None; leaves is
\* the list of the identities of the children.

NoParent == 0

SyntaxTree_init(depth, line_num, tokens, parent, abstract) ==
    LET node == Node_init(line_num, tokens)
    IN  IF node.raised # "None" THEN node
        ELSE [raised |-> "None", depth |-> depth, leaves |-> <<>>,
              parent |-> parent, node |-> node, is_abstract |-> abstract]

SyntaxTree_indent(tree) == Node_indent(tree.node)

SyntaxTree_text(tree) == Node_text(tree.node)

\* (a variant of add_leaf that puts the new leaf first: insert(0, leaf))
add_leaf_first(ts, self, leaf) ==
    [ts EXCEPT ![self].leaves = <<leaf>> \o @]

\* self.leaves.append(leaf), on the heap ts
add_leaf(ts, self, leaf) ==
    [ts EXCEPT ![self].leaves = Append(@, leaf)]

\* [token for token in tokens if token.kind not in [Token.WHITESPACE]]
RECURSIVE _ignore_token(_)
_ignore_token(tokens) ==
    IF Len(tokens) = 0 THEN <<>>
    ELSE IF Head(tokens).kind \notin {WHITESPACE}
         THEN <<Head(tokens)>> \o _ignore_token(Tail(tokens))
         ELSE _ignore_token(Tail(tokens))

\* (a variant of line_tokens that keeps a leading WHITESPACE token)
line_tokens_keep_indent(abstract, tokens) ==
    IF ~abstract THEN tokens
    ELSE IF Len(tokens) > 0 /\ Head(tokens).kind = WHITESPACE
         THEN <<Head(tokens)>> \o _ignore_token(Tail(tokens))
         ELSE _ignore_token(tokens)

\* if is_abstract: tokens = _ignore_token(tokens)
line_tokens(abstract, tokens) ==
    IF abstract THEN _ignore_token(tokens) ELSE tokens

\* (a variant of skips_line that tests the line before it is stripped)
skips_line_raw(abstract, tokens) ==
    abstract /\ Len(tokens) = 0

\* if is_abstract: ...; if not tokens: continue
skips_line(abstract, tokens) ==
    abstract /\ Len(line_tokens(abstract, tokens)) = 0

\* indent = 0; if tokens and tokens[0].kind == WHITESPACE: indent = len(tokens[0].word)
line_indent(tokens) ==
    IF Len(tokens) > 0 /\ tokens[1].kind = WHITESPACE THEN Len(tokens[1].word)
    ELSE 0

\* (a variant of pops with < for <=)
pops_strict(ts, pv, indent) ==
    indent < Node_indent(ts[pv].node) /\ 0 < ts[pv].depth

\* while indent <= parent_vertex.indent and 0 < parent_vertex.depth
pops(ts, pv, indent) ==
    indent <= SyntaxTree_indent(ts[pv]) /\ 0 < ts[pv].depth

\* (a variant of pop_walk that, once it pops, pops all the way to the root)
RECURSIVE climb_to_root(_, _)
climb_to_root(ts, pv) ==
    IF 0 < ts[pv].depth THEN climb_to_root(ts, ts[pv].parent) ELSE pv

pop_walk_to_root(ts, pv, indent) ==
    IF pops(ts, pv, indent) THEN climb_to_root(ts, pv) ELSE pv

\* (a variant of pop_walk with "if" for "while": at most one pop)
pop_walk_once(ts, pv, indent) ==
    IF pops(ts, pv, indent) THEN ts[pv].parent ELSE pv

RECURSIVE pop_walk(_, _, _)
pop_walk(ts, pv, indent) ==
    IF pops(ts, pv, indent) THEN pop_walk(ts, ts[pv].parent, indent)
    ELSE pv

\* for leaf in tree.leaves: yield leaf.text; yield from _sqlftree(leaf)
RECURSIVE _sqlftree(_, _)
RECURSIVE _sqlftree_leaves(_, _)
_sqlftree_leaves(ts, leaves) ==
    IF Len(leaves) = 0 THEN <<>>
    ELSE <<SyntaxTree_text(ts[Head(leaves)])>>
         \o _sqlftree(ts, Head(leaves))
         \o _sqlftree_leaves(ts, Tail(leaves))
_sqlftree(ts, tree) == _sqlftree_leaves(ts, ts[tree].leaves)

\* "\n".join(SyntaxTree._sqlftree(self))
sqlftree_of(ts, self) == StrJoin(<<"\n">>, _sqlftree(ts, self))

-----------------------------------------------------------------------------
\* The inputs: tokenized lines.  A line is an optional leading WHITESPACE
\* token followed by nothing (blank / whitespace-only), one token, or tokens
\* separated by an interior WHITESPACE token.

LineBodies == { <<>>, <<IdTok>>, <<KwTok, WsTok(1), IdTok>> }

LineHeads == { <<>> } \cup { <<WsTok(n)>> : n \in 1..MaxIndent }

Lines == { h \o b : h \in LineHeads, b \in LineBodies }

Root == 1

TreeStart ==
    /\ token_list = <<>>
    /\ is_abstract \in BOOLEAN
    /\ trees = << SyntaxTree_init(0, 0, <<>>, NoParent, is_abstract) >>
    /\ parent_vertex = Root
    /\ tree_pc = "loop"
    /\ sql_out = <<>>

\* one iteration of "for line_num, tokens in enumerate(token_list)"
sqlptree_line(raw) ==
    /\ tree_pc = "loop"
    /\ Len(token_list) < MaxLines
    /\ token_list' = Append(token_list, raw)
    /\ LET line_num == Len(token_list)
           tokens == line_tokens(is_abstract, raw)
       IN  IF skips_line(is_abstract, raw)
           THEN UNCHANGED <<trees, parent_vertex, tree_pc>>
           ELSE LET indent == line_indent(tokens)
                    pv == pop_walk(trees, parent_vertex, indent)
                    _tree == SyntaxTree_init(trees[pv].depth + 1, line_num + 1,
                                             tokens, pv, is_abstract)
                    id == Len(trees) + 1
                IN  IF _tree.raised # "None"
                    THEN /\ tree_pc' = _tree.raised
                         /\ UNCHANGED <<trees, parent_vertex>>
                    ELSE /\ trees' = add_leaf(Append(trees, _tree), pv, id)
                         /\ parent_vertex' = id
                         /\ UNCHANGED tree_pc
    /\ UNCHANGED <<is_abstract, sql_out>>

\* return result
sqlptree_return ==
    /\ tree_pc = "loop"
    /\ tree_pc' = "returned"
    /\ UNCHANGED <<token_list, is_abstract, trees, parent_vertex, sql_out>>

\* result.sqlftree()
sqlftree ==
    /\ tree_pc = "returned"
    /\ sql_out' = sqlftree_of(trees, Root)
    /\ tree_pc' = "printed"
    /\ UNCHANGED <<token_list, is_abstract, trees, parent_vertex>>

TreeIdle ==
    /\ token_list = <<>>
    /\ is_abstract = FALSE
    /\ trees = <<>>
    /\ parent_vertex = NoParent
    /\ tree_pc = "idle"
    /\ sql_out = <<>>

-----------------------------------------------------------------------------
\* Node(...) and SyntaxTree(...) called directly, and the property setters

\* Node.line_num setter
Node_set_line_num(node, value) ==
    IF value < 0 THEN Raise("ValueError")
    ELSE [node EXCEPT !.line_num = value]

\* SyntaxTree.depth setter
SyntaxTree_set_depth(tree, value) ==
    IF value < 0 THEN Raise("ValueError")
    ELSE [tree EXCEPT !.depth = value]

Args == (0 - MaxArg)..MaxArg

CtorStart ==
    /\ made = <<>>
    /\ ctor_raised = "None"

CtorIdle == CtorStart

\* what a call leaves behind: the new object, or the exception
Constructed(cls, obj) ==
    IF obj.raised # "None"
    THEN /\ ctor_raised' = obj.raised
         /\ UNCHANGED made
    ELSE /\ ctor_raised' = "None"
         /\ made' = Append(made, [cls |-> cls, obj |-> obj])

\* Node(line_num=line_num)
new_Node(line_num) ==
    /\ Len(made) < MaxObjects
    /\ Constructed("Node", Node_init(line_num, <<>>))

\* SyntaxTree(depth=depth, line_num=line_num)
new_SyntaxTree(depth, line_num) ==
    /\ Len(made) < MaxObjects
    /\ Constructed("SyntaxTree", SyntaxTree_init(depth, line_num, <<>>, NoParent, FALSE))

\* tree.depth = value
set_depth(i, value) ==
    /\ made[i].cls = "SyntaxTree"
    /\ LET t == SyntaxTree_set_depth(made[i].obj, value)
       IN  IF t.raised # "None"
           THEN ctor_raised' = t.raised /\ UNCHANGED made
           ELSE ctor_raised' = "None" /\ made' = [made EXCEPT ![i].obj = t]

\* node.line_num = value
set_line_num(i, value) ==
    /\ made[i].cls = "Node"
    /\ LET n == Node_set_line_num(made[i].obj, value)
       IN  IF n.raised # "None"
           THEN ctor_raised' = n.raised /\ UNCHANGED made
           ELSE ctor_raised' = "None" /\ made' = [made EXCEPT ![i].obj = n]

-----------------------------------------------------------------------------
\* class Code: (code, template).  A template is a list of parts, each a
\* literal text or a named replacement field.

Lit(text) == [lit |-> text]
Fld(name) == [field |-> name]
IsFld(part) == DOMAIN part = {"field"}

Code ==
    [ INDENT_STEPS |-> [code |-> "E101", template |->
          <<Lit("indent steps must be "), Fld("expected"),
            Lit(" multiples, but "), Fld("actual"), Lit(" spaces")>>],
      WHITESPACE_MULTIPLE |-> [code |-> "E201", template |->
          <<Lit("there are multiple whitespaces")>>],
      WHITESPACE_AFTER_COMMA |-> [code |-> "E202", template |->
          <<Lit("whitespace must be after comma: "), Fld("target")>>],
      WHITESPACE_BEFORE_COMMA |-> [code |-> "E203", template |->
          <<Lit("whitespace must not be before comma: ,")>>],
      WHITESPACE_AFTER_BRACKET |-> [code |-> "E204", template |->
          <<Lit("whitespace must not be after bracket: "), Fld("target")>>],
      WHITESPACE_BEFORE_BRACKET |-> [code |-> "E205", template |->
          <<Lit("whitespace must not be before bracket: "), Fld("target")>>],
      WHITESPACE_AFTER_OPERATOR |-> [code |-> "E206", template |->
          <<Lit("whitespace must be after binary operator: "), Fld("target")>>],
      WHITESPACE_BEFORE_OPERATOR |-> [code |-> "E207", template |->
          <<Lit("whitespace must be before binary operator: "), Fld("target")>>],
      COMMA_HEAD |-> [code |-> "E301", template |->
          <<Lit("comma must be head of line")>>],
      COMMA_END |-> [code |-> "E302", template |->
          <<Lit("comma must be end of line")>>],
      KEYWORD_UPPER |-> [code |-> "E401", template |->
          <<Lit("reserved keywords must be upper case: "), Fld("actual"),
            Lit(" -> "), Fld("expected")>>],
      KEYWORD_UPPER_HEAD |-> [code |-> "E402", template |->
          <<Lit("a head of reserved keywords must be upper case: "), Fld("actual"),
            Lit(" -> "), Fld("expected")>>],
      KEYWORD_LOWER |-> [code |-> "E403", template |->
          <<Lit("reserved keywords must be lower case: "), Fld("actual"),
            Lit(" -> "), Fld("expected")>>],
      JOIN_TABLE |-> [code |-> "E501", template |->
          <<Lit("table_name must be at the same line as join context")>>],
      JOIN_CONTEXT |-> [code |-> "E502", template |->
          <<Lit("join context must be fully: "), Fld("actual"),
            Lit(" -> "), Fld("expected")>>],
      LINE_BlANK_MULTIPLE |-> [code |-> "E601", template |->
          <<Lit("there are multiple blank lines")>>],
      LINE_ONLY_WHITESPACE |-> [code |-> "E602", template |->
          <<Lit("this line has only whitespace")>>],
      LINE_BREAK_BEFORE |-> [code |-> "E603", template |->
          <<Lit("expected to break line after: "), Fld("target")>>],
      LINE_BREAK_AFTER |-> [code |-> "E604", template |->
          <<Lit("expected to break line after: "), Fld("target")>>] ]

\* Code.<name>: an attribute the enum lacks raises AttributeError
Code_attr(name) ==
    IF name \in DOMAIN Code THEN [raised |-> "None", name |-> name]
    ELSE Raise("AttributeError")

\* template.format(**kw): a field that kw lacks raises KeyError
str_format(template, kw) ==
    IF \E i \in 1..Len(template) :
          IsFld(template[i]) /\ template[i].field \notin DOMAIN kw
    THEN Raise("KeyError")
    ELSE [raised |-> "None",
          text |-> [i \in 1..Len(template) |->
                      IF IsFld(template[i]) THEN [val |-> kw[template[i].field]]
                      ELSE template[i]]]

\* Violation.__init__(tree, pos, code, **kwargs)
Violation_init(tree, pos, code, kwargs) ==
    [raised |-> "None", tree |-> tree, pos |-> pos, code |-> code, params |-> kwargs]

\* Violation.get_message
get_message(self) ==
    str_format(<<Lit("(L"), Fld("line"), Lit(", "), Fld("pos"), Lit("): ")>>
                   \o Code[self.code].template,
               ("line" :> self.tree.node.line_num) @@ ("pos" :> self.pos) @@ self.params)

IndentStepsViolation(tree, pos, kwargs) ==
    Violation_init(tree, pos, "INDENT_STEPS", kwargs)

KeywordStyleViolation(tree, pos, kwargs) ==
    IF "style" \notin DOMAIN kwargs THEN Raise("KeyError")
    ELSE LET style == kwargs["style"]
         IN  IF style = "upper-all" THEN Violation_init(tree, pos, "KEYWORD_UPPER", kwargs)
             ELSE IF style = "upper-head"
                  THEN Violation_init(tree, pos, "KEYWORD_UPPER_HEAD", kwargs)
             ELSE IF style = "lower" THEN Violation_init(tree, pos, "KEYWORD_LOWER", kwargs)
             ELSE Raise("ValueError")

CommaPositionViolation(tree, pos, comma_position, kwargs) ==
    IF comma_position = "head" THEN Violation_init(tree, pos, "COMMA_HEAD", kwargs)
    ELSE IF comma_position = "end" THEN Violation_init(tree, pos, "COMMA_END", kwargs)
    ELSE Raise("ValueError")

MultiSpacesViolation(tree, pos, kwargs) ==
    Violation_init(tree, pos, "WHITESPACE_MULTIPLE", kwargs)

WhitespaceViolation(tree, pos, kwargs) ==
    IF "token" \notin DOMAIN kwargs THEN Raise("KeyError")
    ELSE IF "position" \notin DOMAIN kwargs THEN Raise("KeyError")
    ELSE LET token == kwargs["token"]
             position == kwargs["position"]
         IN  IF token = COMMA
             THEN IF position = "before"
                  THEN Violation_init(tree, pos, "WHITESPACE_BEFORE_COMMA", kwargs)
                  ELSE IF position = "after"
                  THEN Violation_init(tree, pos, "WHITESPACE_AFTER_COMMA", kwargs)
                  ELSE Raise("ValueError")
             ELSE IF token = BRACKET_LEFT
             THEN Violation_init(tree, pos, "WHITESPACE_AFTER_BRACKET", kwargs)
             ELSE IF token = BRACKET_RIGHT
             THEN Violation_init(tree, pos, "WHITESPACE_BEFORE_BRACKET", kwargs)
             ELSE IF token = OPERATOR
             THEN IF position = "before"
                  THEN Violation_init(tree, pos, "WHITESPACE_BEFORE_OPERATOR", kwargs)
                  ELSE IF position = "after"
                  THEN Violation_init(tree, pos, "WHITESPACE_AFTER_OPERATOR", kwargs)
                  ELSE Raise("ValueError")
             ELSE Raise("ValueError")

JoinTableViolation(tree, pos, kwargs) ==
    Violation_init(tree, pos, "JOIN_TABLE", kwargs)

JoinContextViolation(tree, pos, kwargs) ==
    Violation_init(tree, pos, "JOIN_CONTEXT", kwargs)

MultiBlankLineViolation(tree, pos, kwargs) ==
    Violation_init(tree, pos, "LINE_BlANK_MULTIPLE", kwargs)

OnlyWhitespaceViolation(tree, pos, kwargs) ==
    Violation_init(tree, pos, "LINE_ONLY_WHITESPACE", kwargs)

\* Code.BREAK_LINE_BEFORE and Code.BREAK_LINE_AFTER are read, which the enum
\* does not define
BreakingLineViolation(tree, pos, position, kwargs) ==
    LET _code == IF position = "before" THEN Code_attr("BREAK_LINE_BEFORE")
                 ELSE IF position = "after" THEN Code_attr("BREAK_LINE_AFTER")
                 ELSE Raise("ValueError")
    IN  IF _code.raised # "None" THEN _code
        ELSE Violation_init(tree, pos, _code.name, kwargs)

\* The arguments a caller may pass.  Every value is a string.
ParamValues ==
    [ style |-> {"upper-all", "upper-head", "lower", "camel"},
      token |-> {COMMA, BRACKET_LEFT, BRACKET_RIGHT, OPERATOR, KEYWORD},
      position |-> {"before", "after", "middle"},
      expected |-> {"SELECT"},
      actual |-> {"select"},
      target |-> {"(x"} ]

NoKwargs == <<>>

\* the key absent, or present with one of its values
Opt(key) == {NoKwargs} \cup { key :> v : v \in ParamValues[key] }

AllKwargs ==
    { s @@ t @@ p @@ e @@ a @@ g :
        s \in Opt("style"), t \in Opt("token"), p \in Opt("position"),
        e \in Opt("expected"), a \in Opt("actual"), g \in Opt("target") }

CommaPositions == {"head", "end", "middle"}
BreakPositions == {"before", "after", "middle"}

\* the flagged location: a tree node of some line, and a column
SomeTree(line_num) == SyntaxTree_init(1, line_num, <<KwTok>>, Root, FALSE)
ViolTrees == { SomeTree(1), SomeTree(2) }
ViolPos == 1

NotCalled == [raised |-> "NotCalled"]

ViolStart ==
    /\ viol_request = [cls |-> "None"]
    /\ violation = NotCalled
    /\ message = NotCalled

ViolIdle == ViolStart

\* no constructor has been called yet
Fresh == viol_request.cls = "None"

Constructing(cls, kwargs, arg, v) ==
    /\ Fresh
    /\ viol_request' = [cls |-> cls, kwargs |-> kwargs, arg |-> arg]
    /\ violation' = v
    /\ message' = NotCalled

new_IndentStepsViolation(tree, kwargs) ==
    Constructing("IndentStepsViolation", kwargs, "",
                 IndentStepsViolation(tree, ViolPos, kwargs))

new_KeywordStyleViolation(tree, kwargs) ==
    Constructing("KeywordStyleViolation", kwargs, "",
                 KeywordStyleViolation(tree, ViolPos, kwargs))

new_CommaPositionViolation(tree, comma_position, kwargs) ==
    Constructing("CommaPositionViolation", kwargs, comma_position,
                 CommaPositionViolation(tree, ViolPos, comma_position, kwargs))

new_MultiSpacesViolation(tree, kwargs) ==
    Constructing("MultiSpacesViolation", kwargs, "",
                 MultiSpacesViolation(tree, ViolPos, kwargs))

new_WhitespaceViolation(tree, kwargs) ==
    Constructing("WhitespaceViolation", kwargs, "",
                 WhitespaceViolation(tree, ViolPos, kwargs))

new_JoinTableViolation(tree, kwargs) ==
    Constructing("JoinTableViolation", kwargs, "",
                 JoinTableViolation(tree, ViolPos, kwargs))

new_JoinContextViolation(tree, kwargs) ==
    Constructing("JoinContextViolation", kwargs, "",
                 JoinContextViolation(tree, ViolPos, kwargs))

new_MultiBlankLineViolation(tree, kwargs) ==
    Constructing("MultiBlankLineViolation", kwargs, "",
                 MultiBlankLineViolation(tree, ViolPos, kwargs))

new_OnlyWhitespaceViolation(tree, kwargs) ==
    Constructing("OnlyWhitespaceViolation", kwargs, "",
                 OnlyWhitespaceViolation(tree, ViolPos, kwargs))

new_BreakingLineViolation(tree, position, kwargs) ==
    Constructing("BreakingLineViolation", kwargs, position,
                 BreakingLineViolation(tree, ViolPos, position, kwargs))

\* vi.get_message() on the Violation just constructed
call_get_message ==
    /\ violation.raised = "None"
    /\ message = NotCalled
    /\ message' = get_message(violation)
    /\ UNCHANGED <<viol_request, violation>>

-----------------------------------------------------------------------------
\* checker.tree.check(tree, config)

\* (a variant of checker_list with its first two entries exchanged)
checker_list_swapped ==
    << "WhitespaceChecker", "IndentStepsChecker", "KeywordStyleChecker",
       "CommaChecker", "JoinChecker" >>

checker_list ==
    << "IndentStepsChecker", "WhitespaceChecker", "KeywordStyleChecker",
       "CommaChecker", "JoinChecker" >>

Checkers == { checker_list[i] : i \in 1..Len(checker_list) }

FlaggedTree == SomeTree(1)

\* The Violations a checker's check() may hold in the list it returns: objects
\* that the constructors of its rule family build.
CheckerViolations(checker) ==
    LET built ==
          IF checker = "IndentStepsChecker" THEN
              { IndentStepsViolation(FlaggedTree, 1, ("expected" :> "4") @@ ("actual" :> "6")),
                IndentStepsViolation(FlaggedTree, 1, NoKwargs) }
          ELSE IF checker = "WhitespaceChecker" THEN
              { MultiSpacesViolation(FlaggedTree, 1, NoKwargs),
                WhitespaceViolation(FlaggedTree, 1,
                    ("token" :> COMMA) @@ ("position" :> "before")) }
          ELSE IF checker = "KeywordStyleChecker" THEN
              { KeywordStyleViolation(FlaggedTree, 1,
                    ("style" :> "upper-all") @@ ("actual" :> "select")
                        @@ ("expected" :> "SELECT")) }
          ELSE IF checker = "CommaChecker" THEN
              { CommaPositionViolation(FlaggedTree, 1, "head", NoKwargs),
                CommaPositionViolation(FlaggedTree, 1, "end", NoKwargs) }
          ELSE
              { JoinTableViolation(FlaggedTree, 1, NoKwargs),
                JoinContextViolation(FlaggedTree, 1,
                    ("actual" :> "join") @@ ("expected" :> "inner join")) }
    IN  { v \in built : v.raised = "None" }

\* the lists of at most n of them
RECURSIVE SeqsUpTo(_, _)
SeqsUpTo(S, n) ==
    IF n = 0 THEN { <<>> }
    ELSE LET shorter == SeqsUpTo(S, n - 1)
         IN  shorter \cup { Append(q, x) : q \in shorter, x \in S }

CheckerOutputs(checker) == SeqsUpTo(CheckerViolations(checker), MaxOut)

\* for vi in violation_list: print(vi.get_message()), from index i on
RECURSIVE print_loop(_, _, _)
print_loop(vl, i, out) ==
    IF i > Len(vl) THEN [raised |-> "None", out |-> out]
    ELSE LET m == get_message(vl[i])
         IN  IF m.raised # "None" THEN [raised |-> m.raised, out |-> out]
             ELSE print_loop(vl, i + 1, Append(out, m.text))

CheckStart ==
    /\ check_pc = "collect"
    /\ check_i = 0
    /\ returned = [c \in Checkers |-> <<>>]
    /\ ran = [c \in Checkers |-> 0]
    /\ violation_list = <<>>
    /\ stdout = <<>>

CheckIdle ==
    /\ check_pc = "idle"
    /\ check_i = 0
    /\ returned = <<>>
    /\ ran = <<>>
    /\ violation_list = <<>>
    /\ stdout = <<>>

\* violation_list.extend(checker.check(tree, config)), check() returning out
check_extend(out) ==
    /\ check_pc = "collect"
    /\ check_i < Len(checker_list)
    /\ out \in CheckerOutputs(checker_list[check_i + 1])
    /\ LET checker == checker_list[check_i + 1]
       IN  /\ violation_list' = violation_list \o out
           /\ returned' = [returned EXCEPT ![checker] = out]
           /\ ran' = [ran EXCEPT ![checker] = @ + 1]
    /\ check_i' = check_i + 1
    /\ check_pc' = IF check_i + 1 = Len(checker_list) THEN "print" ELSE "collect"
    /\ UNCHANGED stdout

\* checker.check(tree, config) raises: the exception leaves check
check_checker_raises ==
    /\ check_pc = "collect"
    /\ check_i < Len(checker_list)
    /\ check_pc' = "raised"
    /\ ran' = [ran EXCEPT ![checker_list[check_i + 1]] = @ + 1]
    /\ UNCHANGED <<check_i, returned, violation_list, stdout>>

\* for vi in violation_list: print(vi.get_message())
check_print ==
    /\ check_pc = "print"
    /\ LET r == print_loop(violation_list, 1, stdout)
       IN  /\ stdout' = r.out
           /\ check_pc' = IF r.raised = "None" THEN "done" ELSE "raised"
    /\ UNCHANGED <<check_i, returned, ran, violation_list>>

-----------------------------------------------------------------------------
\* class Config.  ConfigLoader._load stores every name of NAME_TYPES or
\* raises, so values holds an int for the two int options and a str for the
\* two str options.

\* ConfigLoader.get(name), for a name that values holds
ConfigLoader_get(vals, name) == vals[name]

\* A property returns a value and leaves the loader as it is.
Returns(result, vals) == [result |-> result, values |-> vals]

Config_max_line_length(vals) ==
    LET result == ConfigLoader_get(vals, "max-line-length")
    IN  IF result < 32 THEN Returns(128, vals) ELSE Returns(result, vals)

Config_comma_position(vals) ==
    LET result == ConfigLoader_get(vals, "comma-position")
    IN  IF result \notin {"head", "end"} THEN Returns("head", vals)
        ELSE Returns(result, vals)

Config_keyword_style(vals) ==
    LET result == ConfigLoader_get(vals, "keyword-style")
    IN  IF result \notin {"upper-all", "lower", "upper-head"} THEN Returns("lower", vals)
        ELSE Returns(result, vals)

\* (a variant of indent_steps that rejects 0 too)
Config_indent_steps_positive(vals) ==
    LET result == ConfigLoader_get(vals, "indent-steps")
    IN  IF result <= 0 THEN Returns(4, vals)
        ELSE Returns(ConfigLoader_get(vals, "indent-steps"), vals)

Config_indent_steps(vals) ==
    LET result == ConfigLoader_get(vals, "indent-steps")
    IN  IF result < 0 THEN Returns(4, vals)
        ELSE Returns(ConfigLoader_get(vals, "indent-steps"), vals)

\* what an ini file can hold
LoadedMaxLineLength == ((32 - IntSpread)..(32 + IntSpread)) \cup {0 - IntSpread, 128}
LoadedIndentSteps == ((0 - IntSpread)..IntSpread) \cup {4}
LoadedCommaPosition == {"head", "end", "before", ""}
LoadedKeywordStyle == {"upper-all", "upper-head", "lower", "upper", "LOWER"}

ConfigStart ==
    /\ values \in
         { ("max-line-length" :> m) @@ ("comma-position" :> c)
             @@ ("keyword-style" :> k) @@ ("indent-steps" :> s) :
           m \in LoadedMaxLineLength, c \in LoadedCommaPosition,
           k \in LoadedKeywordStyle, s \in LoadedIndentSteps }
    /\ accessed = [name |-> "None"]

ConfigIdle ==
    /\ values = <<>>
    /\ accessed = [name |-> "None"]

Reading(name, r) ==
    /\ accessed' = [name |-> name, result |-> r.result]
    /\ values' = r.values

read_max_line_length == Reading("max_line_length", Config_max_line_length(values))
read_comma_position == Reading("comma_position", Config_comma_position(values))
read_keyword_style == Reading("keyword_style", Config_keyword_style(values))
read_indent_steps == Reading("indent_steps", Config_indent_steps(values))

-----------------------------------------------------------------------------
\* Node.ltrip_kind / rtrip_kind / trip_kind

\* (a variant of ltrip_cut whose loop does not break)
RECURSIVE ltrip_cut_nobreak(_, _, _, _)
ltrip_cut_nobreak(tokens, args, i, cut) ==
    IF i > Len(tokens) THEN cut
    ELSE IF tokens[i].kind \in args THEN ltrip_cut_nobreak(tokens, args, i + 1, cut + 1)
    ELSE ltrip_cut_nobreak(tokens, args, i + 1, cut)

\* for token in self.tokens: if token.kind in args: cut += 1 else: break
RECURSIVE ltrip_cut(_, _, _, _)
ltrip_cut(tokens, args, i, cut) ==
    IF i > Len(tokens) THEN cut
    ELSE IF tokens[i].kind \in args THEN ltrip_cut(tokens, args, i + 1, cut + 1)
    ELSE cut

\* for token in reversed(self.tokens): if token.kind in args: cut -= 1 else: break
RECURSIVE rtrip_cut(_, _, _, _)
rtrip_cut(tokens, args, i, cut) ==
    IF i < 1 THEN cut
    ELSE IF tokens[i].kind \in args THEN rtrip_cut(tokens, args, i - 1, cut - 1)
    ELSE cut

ltrip_kind(self, args) ==
    LET cut == ltrip_cut(self.tokens, args, 1, 0 - 1)
    IN  Node_init(self.line_num, Slice(self.tokens, cut + 1, Len(self.tokens)))

rtrip_kind(self, args) ==
    LET cut == rtrip_cut(self.tokens, args, Len(self.tokens), Len(self.tokens))
    IN  Node_init(self.line_num, Slice(self.tokens, 0, cut))

trip_kind(self, args) == rtrip_kind(ltrip_kind(self, args), args)

CommaTok == Token(COMMA, <<",">>)

TrimTokens == { WsTok(1), IdTok, CommaTok }
TrimKinds == { WHITESPACE, IDENTIFIER, COMMA }

NodeStart ==
    /\ \E tokens \in SeqsUpTo(TrimTokens, MaxTrimLen), line_num \in {0, 1} :
          nodes = << Node_init(line_num, tokens) >>
    /\ trim_call = [op |-> "None"]

NodeIdle ==
    /\ nodes = <<>>
    /\ trim_call = [op |-> "None"]

\* a trim of nodes[self]: the Node it returns is a new object
Trimming(op, self, args, result) ==
    /\ Len(nodes) < MaxNodes
    /\ nodes' = Append(nodes, result)
    /\ trim_call' = [op |-> op, self |-> self, args |-> args, result |-> Len(nodes) + 1]

call_ltrip_kind(self, args) == Trimming("ltrip_kind", self, args, ltrip_kind(nodes[self], args))
call_rtrip_kind(self, args) == Trimming("rtrip_kind", self, args, rtrip_kind(nodes[self], args))
call_trip_kind(self, args) == Trimming("trip_kind", self, args, trip_kind(nodes[self], args))

-----------------------------------------------------------------------------
\* Specifications: one per component, the other components' state at rest

OnlyTree == UNCHANGED <<ctor_vars, viol_vars, check_vars, config_vars, node_vars>>
OnlyCtor == UNCHANGED <<tree_vars, viol_vars, check_vars, config_vars, node_vars>>
OnlyViol == UNCHANGED <<tree_vars, ctor_vars, check_vars, config_vars, node_vars>>
OnlyCheck == UNCHANGED <<tree_vars, ctor_vars, viol_vars, config_vars, node_vars>>
OnlyConfig == UNCHANGED <<tree_vars, ctor_vars, viol_vars, check_vars, node_vars>>
OnlyNode == UNCHANGED <<tree_vars, ctor_vars, viol_vars, check_vars, config_vars>>

TreeInit == TreeStart /\ CtorIdle /\ ViolIdle /\ CheckIdle /\ ConfigIdle /\ NodeIdle

TreeNext ==
    \/ \E raw \in Lines : sqlptree_line(raw) /\ OnlyTree
    \/ sqlptree_return /\ OnlyTree
    \/ sqlftree /\ OnlyTree

TreeSpec == TreeInit /\ [][TreeNext]_vars

CtorInit == TreeIdle /\ CtorStart /\ ViolIdle /\ CheckIdle /\ ConfigIdle /\ NodeIdle

CtorNext ==
    \/ \E line_num \in Args : new_Node(line_num) /\ OnlyCtor
    \/ \E depth \in Args, line_num \in Args : new_SyntaxTree(depth, line_num) /\ OnlyCtor
    \/ \E i \in 1..Len(made), value \in Args : set_depth(i, value) /\ OnlyCtor
    \/ \E i \in 1..Len(made), value \in Args : set_line_num(i, value) /\ OnlyCtor

CtorSpec == CtorInit /\ [][CtorNext]_vars

ViolInit == TreeIdle /\ CtorIdle /\ ViolStart /\ CheckIdle /\ ConfigIdle /\ NodeIdle

ViolNext ==
    \/ Fresh /\ \E t \in ViolTrees, kw \in AllKwargs : new_IndentStepsViolation(t, kw) /\ OnlyViol
    \/ Fresh /\ \E t \in ViolTrees, kw \in AllKwargs : new_KeywordStyleViolation(t, kw) /\ OnlyViol
    \/ Fresh /\ \E t \in ViolTrees, cp \in CommaPositions, kw \in AllKwargs :
          new_CommaPositionViolation(t, cp, kw) /\ OnlyViol
    \/ Fresh /\ \E t \in ViolTrees, kw \in AllKwargs : new_MultiSpacesViolation(t, kw) /\ OnlyViol
    \/ Fresh /\ \E t \in ViolTrees, kw \in AllKwargs : new_WhitespaceViolation(t, kw) /\ OnlyViol
    \/ Fresh /\ \E t \in ViolTrees, kw \in AllKwargs : new_JoinTableViolation(t, kw) /\ OnlyViol
    \/ Fresh /\ \E t \in ViolTrees, kw \in AllKwargs : new_JoinContextViolation(t, kw) /\ OnlyViol
    \/ Fresh /\ \E t \in ViolTrees, kw \in AllKwargs : new_MultiBlankLineViolation(t, kw) /\ OnlyViol
    \/ Fresh /\ \E t \in ViolTrees, kw \in AllKwargs : new_OnlyWhitespaceViolation(t, kw) /\ OnlyViol
    \/ Fresh /\ \E t \in ViolTrees, bp \in BreakPositions, kw \in AllKwargs :
          new_BreakingLineViolation(t, bp, kw) /\ OnlyViol
    \/ call_get_message /\ OnlyViol

ViolSpec == ViolInit /\ [][ViolNext]_vars

CheckInit == TreeIdle /\ CtorIdle /\ ViolIdle /\ CheckStart /\ ConfigIdle /\ NodeIdle

CheckNext ==
    \/ \E c \in Checkers : \E out \in CheckerOutputs(c) : check_extend(out) /\ OnlyCheck
    \/ check_checker_raises /\ OnlyCheck
    \/ check_print /\ OnlyCheck

CheckSpec == CheckInit /\ [][CheckNext]_vars

ConfigInit == TreeIdle /\ CtorIdle /\ ViolIdle /\ CheckIdle /\ ConfigStart /\ NodeIdle

ConfigNext ==
    \/ read_max_line_length /\ OnlyConfig
    \/ read_comma_position /\ OnlyConfig
    \/ read_keyword_style /\ OnlyConfig
    \/ read_indent_steps /\ OnlyConfig

ConfigSpec == ConfigInit /\ [][ConfigNext]_vars

NodeInit == TreeIdle /\ CtorIdle /\ ViolIdle /\ CheckIdle /\ ConfigIdle /\ NodeStart

NodeNext ==
    \/ \E self \in 1..Len(nodes), args \in SUBSET TrimKinds : call_ltrip_kind(self, args) /\ OnlyNode
    \/ \E self \in 1..Len(nodes), args \in SUBSET TrimKinds : call_rtrip_kind(self, args) /\ OnlyNode
    \/ \E self \in 1..Len(nodes), args \in SUBSET TrimKinds : call_trip_kind(self, args) /\ OnlyNode

NodeSpec == NodeInit /\ [][NodeNext]_vars

-----------------------------------------------------------------------------
\* Properties of the tree builder

\* the text of each input line: the concatenation of its tokens' words
OriginalLines ==
    [i \in 1..Len(token_list) |->
        StrJoin(<<>>, [j \in 1..Len(token_list[i]) |-> token_list[i][j].word])]

LineIndentOf(i) == line_indent(token_list[i])

\* C1: round trip.  Once sqlftree has run on the root of a non-abstract tree,
\* the pre-order sequence of texts is the sequence of the input lines' texts,
\* in order, and the returned string is those texts joined by newlines.
C1_RoundTrip ==
    (tree_pc = "printed" /\ ~is_abstract) =>
        /\ _sqlftree(trees, Root) = OriginalLines
        /\ sql_out = StrJoin(<<"\n">>, OriginalLines)

\* a printed non-abstract tree of MaxLines lines with a blank line, a repeated
\* indent, a decreasing indent and a nested node
C1_Witness ==
    /\ tree_pc = "printed" /\ ~is_abstract
    /\ Len(token_list) = MaxLines
    /\ \E i \in 1..Len(token_list) : token_list[i] = <<>>
    /\ \E i \in 1..(Len(token_list) - 1) :
           LineIndentOf(i) > 0 /\ LineIndentOf(i + 1) = LineIndentOf(i)
    /\ \E i \in 1..(Len(token_list) - 1) : LineIndentOf(i + 1) < LineIndentOf(i)
    /\ \E n \in 1..Len(trees) : trees[n].depth >= 2

\* C2: nesting law.  Every node whose parent is not the guard root has an
\* indent strictly greater than its parent's.
C2_NestingLaw ==
    \A n \in 2..Len(trees) :
        trees[n].parent # Root =>
            SyntaxTree_indent(trees[n]) > SyntaxTree_indent(trees[trees[n].parent])

\* a returned tree with a node at depth 3 and a node that was attached, after
\* a pop, under a parent that is neither the root nor the previous line's node
C2_Witness ==
    /\ tree_pc = "returned"
    /\ \E n \in 2..Len(trees) : trees[n].depth = 3
    /\ \E n \in 3..Len(trees) :
           trees[n].parent # Root /\ trees[n].parent # n - 1

\* C10: abstract mode.  The non-root nodes are, one for one, the input lines
\* that hold a non-WHITESPACE token, each with the line's tokens without the
\* WHITESPACE ones, in order, and the line's 1-based number; no node is empty
\* or holds a WHITESPACE token; every node is a leaf of its parent.
NonWhitespace(tokens) == SelectSeq(tokens, LAMBDA t : t.kind # WHITESPACE)

ContentLines ==
    { i \in 1..Len(token_list) :
        \E j \in 1..Len(token_list[i]) : token_list[i][j].kind # WHITESPACE }

RECURSIVE AncestorsOf(_)
AncestorsOf(n) ==
    IF trees[n].parent = NoParent THEN {}
    ELSE {trees[n].parent} \cup AncestorsOf(trees[n].parent)

\* position of leaf n in the leaves of its parent
LeafIndex(n) ==
    CHOOSE k \in 1..Len(trees[trees[n].parent].leaves) :
        trees[trees[n].parent].leaves[k] = n

\* C11: tie-break.  A node whose indent equals the indent of the node created
\* just before it (the cursor when its line is read) has that node's parent
\* and depth, and is the leaf that follows it in the parent's leaves: the
\* cursor moved up one level.  No node has an ancestor other than the root
\* whose indent equals its own.
C11_TieBreak ==
    /\ \A n \in 3..Len(trees) :
          SyntaxTree_indent(trees[n]) = SyntaxTree_indent(trees[n - 1]) =>
              /\ trees[n].parent = trees[n - 1].parent
              /\ trees[n].depth = trees[n - 1].depth
              /\ n \in { trees[trees[n].parent].leaves[k] :
                            k \in 1..Len(trees[trees[n].parent].leaves) }
              /\ LeafIndex(n) = LeafIndex(n - 1) + 1
    /\ \A n \in 2..Len(trees) :
          \A a \in AncestorsOf(n) \ {Root} :
              SyntaxTree_indent(trees[a]) # SyntaxTree_indent(trees[n])

\* a returned non-abstract tree in which an indented line repeats the indent
\* of the line before it, below a parent that is not the root
C11_Witness ==
    /\ tree_pc = "returned" /\ ~is_abstract
    /\ \E n \in 3..Len(trees) :
          /\ SyntaxTree_indent(trees[n]) = SyntaxTree_indent(trees[n - 1])
          /\ SyntaxTree_indent(trees[n]) > 0
          /\ trees[n].parent # Root
          /\ trees[n].depth = 3

\* the lines before line i whose indent is strictly smaller than line i's
SmallerBefore(i) == { j \in 1..(i - 1) : LineIndentOf(j) < LineIndentOf(i) }

SetMax(S) == CHOOSE x \in S : \A y \in S : y <= x

\* In a non-abstract tree the node of line i is trees[i + 1].
NodeOfLine(i) == i + 1

\* C12: in a non-abstract tree the parent of line i's node is the node of the
\* nearest line before i with a strictly smaller indent, the root when there
\* is none; its depth is its parent's plus 1 and the root's is 0; the
\* pop-walk ends at that parent, an ancestor of (or) the previous line's node,
\* after at most as many steps as that node is deep.
C12_NearestSmallerParent ==
    ~is_abstract =>
        /\ Len(trees) = Len(token_list) + 1
        /\ trees[Root].depth = 0
        /\ \A i \in 1..Len(token_list) :
              LET n == NodeOfLine(i)
                  expected == IF SmallerBefore(i) = {} THEN Root
                              ELSE NodeOfLine(SetMax(SmallerBefore(i)))
              IN  /\ trees[n].node.line_num = i
                  /\ trees[n].node.tokens = token_list[i]
                  /\ trees[n].parent = expected
                  /\ trees[n].depth = trees[expected].depth + 1
                  /\ n > 2 => /\ expected \in AncestorsOf(n - 1) \cup {n - 1}
                              /\ trees[n - 1].depth - trees[expected].depth >= 0
                              /\ trees[n - 1].depth - trees[expected].depth
                                    <= trees[n - 1].depth

\* a returned non-abstract tree of MaxLines lines in which one line's parent
\* is a line further back than the one before it (a pop-walk ending at a
\* non-root node) and another line pops to the root, no line before it
\* having a smaller indent
C12_Witness ==
    /\ tree_pc = "returned" /\ ~is_abstract
    /\ Len(token_list) = MaxLines
    /\ \E i \in 3..Len(token_list) :
          /\ SmallerBefore(i) # {}
          /\ SetMax(SmallerBefore(i)) < i - 1
    /\ \E i \in 2..Len(token_list) :
          SmallerBefore(i) = {} /\ LineIndentOf(i - 1) > LineIndentOf(i)

\* C13: an abstract tree is flat.  Every node but the root has indent 0,
\* depth 1, the root as its parent and no leaves.
C13_AbstractFlat ==
    is_abstract =>
        \A n \in 2..Len(trees) :
            /\ SyntaxTree_indent(trees[n]) = 0
            /\ trees[n].depth = 1
            /\ trees[n].parent = Root
            /\ trees[n].leaves = <<>>
            /\ trees[n].is_abstract

\* a returned abstract tree over content lines of indents 0, 1, .., MaxIndent
\* in that order: three or more nodes, all directly under the root
C13_Witness ==
    /\ tree_pc = "returned" /\ is_abstract
    /\ Len(token_list) > MaxIndent
    /\ \A k \in 0..MaxIndent :
          /\ LineIndentOf(k + 1) = k
          /\ NonWhitespace(token_list[k + 1]) # <<>>
    /\ Len(trees[Root].leaves) > MaxIndent

-----------------------------------------------------------------------------
\* Properties of the constructors

\* C3: no Node with line_num < 0 and no SyntaxTree with line_num < 0 or
\* depth < 0 is ever constructed: such a call raises instead.
C3_EnforcedAtConstruction ==
    \A i \in 1..Len(made) :
        IF made[i].cls = "Node" THEN made[i].obj.line_num >= 0
        ELSE made[i].obj.node.line_num >= 0 /\ made[i].obj.depth >= 0

-----------------------------------------------------------------------------
\* Properties of check

ExpectedOrder ==
    << "IndentStepsChecker", "WhitespaceChecker", "KeywordStyleChecker",
       "CommaChecker", "JoinChecker" >>

\* the outputs of the first n checkers of the declared order, concatenated
RECURSIVE OutputsOfFirst(_)
OutputsOfFirst(n) ==
    IF n = 0 THEN <<>>
    ELSE OutputsOfFirst(n - 1) \o returned[ExpectedOrder[n]]

\* C4: the checkers are called once each in the order IndentSteps,
\* Whitespace, KeywordStyle, Comma, Join; the collected list is at every point
\* the concatenation, in that order, of what the checkers called so far
\* returned; printing starts only after all five; a completed run has
\* printed the message of every collected violation, in the list's order.
C4_FixedOrderConcatenation ==
    /\ \A i \in 1..Len(ExpectedOrder) :
          ran[ExpectedOrder[i]] =
              IF i <= check_i \/ (check_pc = "raised" /\ i = check_i + 1) THEN 1 ELSE 0
    /\ violation_list = OutputsOfFirst(check_i)
    /\ check_pc \in {"print", "done"} => check_i = Len(ExpectedOrder)
    /\ check_pc = "done" =>
          stdout = [i \in 1..Len(violation_list) |-> get_message(violation_list[i]).text]

\* a completed run in which every checker reported, two of them MaxOut
\* violations, and everything was printed
C4_Witness ==
    /\ check_pc = "done"
    /\ \A c \in Checkers : Len(returned[c]) >= 1
    /\ Len(returned["IndentStepsChecker"]) = MaxOut
    /\ Len(returned["JoinChecker"]) = MaxOut
    /\ returned["JoinChecker"][1] # returned["JoinChecker"][MaxOut]
    /\ Len(stdout) = Len(violation_list)

\* C5: a run that ends in a fatal error has printed nothing, and a run that
\* completes has printed the whole list.
C5_AllOrNothing ==
    /\ check_pc = "raised" => stdout = <<>>
    /\ check_pc = "done" => Len(stdout) = Len(violation_list)

-----------------------------------------------------------------------------
\* Properties of the Violation classes

TemplateFields(code) ==
    { Code[code].template[i].field :
        i \in { j \in 1..Len(Code[code].template) : IsFld(Code[code].template[j]) } }

\* C6: a constructed Violation holds every parameter its template names, and
\* get_message does not fail on it.
C6_EagerParameters ==
    /\ violation.raised = "None" =>
          TemplateFields(violation.code) \subseteq DOMAIN violation.params
    /\ message.raised \in {"NotCalled", "None"}

\* C7: a discriminator outside its recognized set makes the construction
\* fail, whatever the other discriminators are.
C7_ExhaustiveMatch ==
    /\ (/\ viol_request.cls = "KeywordStyleViolation"
        /\ "style" \in DOMAIN viol_request.kwargs
        /\ viol_request.kwargs["style"] \notin {"upper-all", "upper-head", "lower"})
          => violation.raised # "None"
    /\ (/\ viol_request.cls = "CommaPositionViolation"
        /\ viol_request.arg \notin {"head", "end"})
          => violation.raised # "None"
    /\ (/\ viol_request.cls = "WhitespaceViolation"
        /\ "token" \in DOMAIN viol_request.kwargs
        /\ viol_request.kwargs["token"] \notin {COMMA, BRACKET_LEFT, BRACKET_RIGHT, OPERATOR})
          => violation.raised # "None"
    /\ (/\ viol_request.cls = "WhitespaceViolation"
        /\ "position" \in DOMAIN viol_request.kwargs
        /\ viol_request.kwargs["position"] \notin {"before", "after"})
          => violation.raised # "None"

-----------------------------------------------------------------------------
\* Properties of Config

\* C8: each property returns the loaded value when it is in the option's
\* domain and the option's default otherwise, and no read changes values.
C8_AccessorDomains ==
    /\ [](/\ accessed.name = "max_line_length" =>
               accessed.result = IF values["max-line-length"] >= 32
                                 THEN values["max-line-length"] ELSE 128
          /\ accessed.name = "comma_position" =>
               accessed.result = IF values["comma-position"] \in {"head", "end"}
                                 THEN values["comma-position"] ELSE "head"
          /\ accessed.name = "keyword_style" =>
               accessed.result =
                   IF values["keyword-style"] \in {"upper-all", "upper-head", "lower"}
                   THEN values["keyword-style"] ELSE "lower"
          /\ accessed.name = "indent_steps" =>
               accessed.result = IF values["indent-steps"] >= 0
                                 THEN values["indent-steps"] ELSE 4)
    /\ [][values' = values]_vars

\* indent_steps read on a loaded 0, which is in the domain and is returned
C8_Witness ==
    /\ accessed.name = "indent_steps"
    /\ values["indent-steps"] = 0
    /\ accessed.result = 0
    /\ values["max-line-length"] = 32 - 1
    /\ values["comma-position"] = "before"

-----------------------------------------------------------------------------
\* Properties of the trims

Matches(tokens, j, args) == tokens[j].kind \in args

\* k is the length of the maximal prefix of tokens whose kinds are in args
MaximalPrefix(tokens, args, k) ==
    /\ \A j \in 1..k : Matches(tokens, j, args)
    /\ k < Len(tokens) => ~Matches(tokens, k + 1, args)

\* the tokens after position m are the maximal suffix, of what follows
\* position k, whose kinds are in args
MaximalSuffix(tokens, args, k, m) ==
    /\ \A j \in (m + 1)..Len(tokens) : Matches(tokens, j, args)
    /\ m > k => ~Matches(tokens, m, args)

\* C9: a trim returns a new Node with the receiver's line_num and its tokens
\* without the maximal matching prefix (ltrip_kind), suffix (rtrip_kind) or
\* both (trip_kind), and no existing Node changes.
C9_TrimsDoNotMutate ==
    /\ [](trim_call.op # "None" =>
            LET src == nodes[trim_call.self]
                res == nodes[trim_call.result]
                n == Len(src.tokens)
            IN  /\ trim_call.result # trim_call.self
                /\ res.line_num = src.line_num
                /\ \E k \in 0..n, m \in 0..n :
                      /\ k <= m
                      /\ IF trim_call.op = "rtrip_kind" THEN k = 0
                         ELSE MaximalPrefix(src.tokens, trim_call.args, k)
                      /\ IF trim_call.op = "ltrip_kind" THEN m = n
                         ELSE MaximalSuffix(src.tokens, trim_call.args, k, m)
                      /\ res.tokens = SubSeq(src.tokens, k + 1, m))
    /\ [][\A i \in 1..Len(nodes) : nodes'[i] = nodes[i]]_vars

\* ltrip_kind that removed a leading token and kept a matching interior one
C9_Witness ==
    /\ trim_call.op = "ltrip_kind"
    /\ trim_call.args = {WHITESPACE}
    /\ nodes[trim_call.self].tokens = <<WsTok(1), IdTok, WsTok(1), CommaTok>>
    /\ nodes[trim_call.result].tokens = <<IdTok, WsTok(1), CommaTok>>

====
